---- MODULE Spec2Model ----
(***************************************************************************)
(* Model of src/python/get_data_info.py: one request (info or plot) of the *)
(* scientific data viewer backend.  The state is the environment of the    *)
(* request (file extension, installed packages, xarray capabilities, the   *)
(* groups of the file), the locals of get_file_info / create_plot /        *)
(* open_datatree_with_fallback, and the file handles the backends hold.    *)
(*                                                                         *)
(* The decoding backends (xarray, netCDF4, h5netcdf) and matplotlib are    *)
(* external: every call into them is a step whose outcome is drawn from    *)
(* Outcomes.  The same call repeated within one request gives the same     *)
(* outcome (the file is not modified during a request).                    *)
(***************************************************************************)
EXTENDS Integers, Sequences, FiniteSets, TLC

\* Largest number of subgroups of the file under test.
MaxSubgroups == 2

(***************************************************************************)
(* Static tables                                                           *)
(***************************************************************************)
FORMAT_ENGINE_MAP ==
    ".nc"       :> <<"netcdf4", "h5netcdf", "scipy">> @@
    ".nc4"      :> <<"netcdf4", "h5netcdf">> @@
    ".netcdf"   :> <<"netcdf4", "h5netcdf", "scipy">> @@
    ".cdf"      :> <<"netcdf4", "h5netcdf", "scipy">> @@
    ".zarr"     :> <<"zarr">> @@
    ".h5"       :> <<"h5netcdf", "h5py", "netcdf4">> @@
    ".hdf5"     :> <<"h5netcdf", "h5py", "netcdf4">> @@
    ".grib"     :> <<"cfgrib">> @@
    ".grib2"    :> <<"cfgrib">> @@
    ".grb"      :> <<"cfgrib">> @@
    ".tif"      :> <<"rasterio">> @@
    ".tiff"     :> <<"rasterio">> @@
    ".geotiff"  :> <<"rasterio">> @@
    ".jp2"      :> <<"rasterio">> @@
    ".jpeg2000" :> <<"rasterio">>

FORMAT_DISPLAY_NAMES ==
    ".nc"       :> "NetCDF" @@
    ".nc4"      :> "NetCDF4" @@
    ".netcdf"   :> "NetCDF" @@
    ".cdf"      :> "CDF/NetCDF" @@
    ".zarr"     :> "Zarr" @@
    ".h5"       :> "HDF5" @@
    ".hdf5"     :> "HDF5" @@
    ".grib"     :> "GRIB" @@
    ".grib2"    :> "GRIB2" @@
    ".grb"      :> "GRIB" @@
    ".tif"      :> "GeoTIFF" @@
    ".tiff"     :> "GeoTIFF" @@
    ".geotiff"  :> "GeoTIFF" @@
    ".jp2"      :> "JPEG-2000" @@
    ".jpeg2000" :> "JPEG-2000"

ENGINE_PACKAGES ==
    "netcdf4"  :> "netCDF4" @@
    "h5netcdf" :> "h5netcdf" @@
    "scipy"    :> "scipy" @@
    "zarr"     :> "zarr" @@
    "h5py"     :> "h5py" @@
    "cfgrib"   :> "cfgrib" @@
    "rasterio" :> "rioxarray"

Engines == DOMAIN ENGINE_PACKAGES

DEFAULT_XR_OPEN_KWARGS ==
    [e \in Engines |-> IF e = "rasterio" THEN "{}" ELSE "{decode_cf: False}"]

DEFAULT_ENGINE_BACKEND_KWARGS ==
    [e \in Engines |->
        CASE e = "cfgrib"   -> "{indexpath: ''}"
          [] e = "rasterio" -> "{mask_and_scale: False}"
          [] OTHER          -> "None"]

DEFAULT_ENGINE_TO_FORCE_USE_OPEN_DATASET ==
    [e \in Engines |-> e \in {"cfgrib", "rasterio"}]

(***************************************************************************)
(* Inputs of the model                                                     *)
(***************************************************************************)
\* Lower-cased suffixes of the files under test; ".xyz" and ".safe" are not
\* registered in FORMAT_ENGINE_MAP.
FileExtensions == {".nc", ".grib", ".zarr", ".xyz"}

\* What a call into a backend does: it succeeds or raises.
Outcomes == {"ok", "NotImplementedError", "OSError", "ImportError"}

GroupName(i) == "group" \o ToString(i)

\* Names of the subgroups as the enumeration probes report them
\* (list(f.groups): the bare group names).
SubgroupNames(n) == [i \in 1..n |-> GroupName(i)]

Unbound == [extension |-> "<unbound>"]
NoError == [type |-> "none", engine |-> "none", op |-> "none"]
NoObject == [shape |-> "none", items |-> <<>>]
NoResult == [kind |-> "none"]

VARIABLES
    ext,                \* file_path.suffix.lower()
    installed,          \* packages find_spec resolves
    has_open_datatree,  \* hasattr(xr, "open_datatree")
    file_groups,        \* names of the subgroups of the file
    root_data_vars,     \* data variables of the root group
    mode,               \* "info" | "plot"
    plot_type, style, variable_path,
    pc,                 \* position in the request
    file_format_info,   \* local of get_file_info / create_plot
    probed,             \* packages check_package_availability was called on
    idx,                \* position of the resolver's loop in available_engines
    exceptions,         \* resolver's list of caught errors
    groups, gi, xds_dict,   \* locals of the per-group flat open
    attempts,           \* every backend call made, in order
    opened, live,       \* handles ever opened / not closed yet
    xds_or_xdt, used_engine,
    raised,             \* error the resolver raised to its caller
    info,               \* FileInfoResult under construction
    applied_style,      \* matplotlib style in force
    result,             \* what the request returned, or the error it raised
    payload,            \* object main hands to to_json_best_effort
    stdout,             \* what main printed
    call_no,            \* 1, or 2 for a second request on the same file
    first_call          \* what the first of two requests read and returned

env == <<ext, installed, has_open_datatree, file_groups, root_data_vars>>
request == <<mode, plot_type, style, variable_path>>
resolver == <<idx, exceptions, groups, gi, xds_dict, attempts, opened,
              xds_or_xdt, used_engine, raised>>
output == <<payload, stdout>>
calls == <<call_no, first_call>>
vars == <<env, request, pc, file_format_info, probed, resolver, live, info,
          applied_style, result, output, calls>>


(***************************************************************************)
(* Format Registry + Capability Prober                                     *)
(***************************************************************************)
check_package_availability(package_name) == package_name \in installed

get_available_engines(file_extension) ==
    IF file_extension \notin DOMAIN FORMAT_ENGINE_MAP THEN <<>>
    ELSE SelectSeq(FORMAT_ENGINE_MAP[file_extension],
                   LAMBDA engine : check_package_availability(ENGINE_PACKAGES[engine]))

\* Variant: the package of every candidate is listed, available or not.
get_missing_packages_unfiltered(file_extension) ==
    IF file_extension \notin DOMAIN FORMAT_ENGINE_MAP THEN <<>>
    ELSE [i \in 1..Len(FORMAT_ENGINE_MAP[file_extension]) |->
             ENGINE_PACKAGES[FORMAT_ENGINE_MAP[file_extension][i]]]

get_missing_packages(file_extension) ==
    IF file_extension \notin DOMAIN FORMAT_ENGINE_MAP THEN <<>>
    ELSE LET missing == SelectSeq(FORMAT_ENGINE_MAP[file_extension],
                 LAMBDA engine : ~check_package_availability(ENGINE_PACKAGES[engine]))
         IN  [i \in 1..Len(missing) |-> ENGINE_PACKAGES[missing[i]]]

detect_file_format(file_extension) ==
    [extension         |-> file_extension,
     display_name      |-> IF file_extension \in DOMAIN FORMAT_DISPLAY_NAMES
                           THEN FORMAT_DISPLAY_NAMES[file_extension] ELSE "Unknown",
     available_engines |-> get_available_engines(file_extension),
     missing_packages  |-> get_missing_packages(file_extension)]

is_supported(format_info) == Len(format_info.available_engines) > 0

\* Packages detect_file_format probes with find_spec.
ProbedBy(file_extension) ==
    IF file_extension \notin DOMAIN FORMAT_ENGINE_MAP THEN {}
    ELSE {ENGINE_PACKAGES[FORMAT_ENGINE_MAP[file_extension][i]] :
              i \in 1..Len(FORMAT_ENGINE_MAP[file_extension])}

can_use_datatree(engine) ==
    has_open_datatree /\ ~DEFAULT_ENGINE_TO_FORCE_USE_OPEN_DATASET[engine]

(***************************************************************************)
(* Initial state: the environment of one request                           *)
(***************************************************************************)
Init ==
    /\ ext \in FileExtensions
    /\ installed \in SUBSET (ProbedBy(ext) \cup {"matplotlib"})
    /\ has_open_datatree \in BOOLEAN
    /\ file_groups \in {SubgroupNames(n) : n \in 0..MaxSubgroups}
    /\ root_data_vars \in {<<>>, <<"temperature">>, <<"temperature.hourly">>}
    /\ mode = "none" /\ plot_type = "auto" /\ style = "" /\ variable_path = <<>>
    /\ pc = "idle"
    /\ file_format_info = Unbound
    /\ probed = {}
    /\ idx = 0 /\ exceptions = <<>>
    /\ groups = <<>> /\ gi = 0 /\ xds_dict = <<>>
    /\ attempts = <<>>
    /\ opened = <<>> /\ live = {}
    /\ xds_or_xdt = NoObject /\ used_engine = "none"
    /\ raised = NoError
    /\ info = NoResult
    /\ applied_style = "none"
    /\ result = NoResult
    /\ payload = NoResult /\ stdout = NoResult
    /\ call_no = 1 /\ first_call = NoResult

(***************************************************************************)
(* open_datatree_with_fallback                                             *)
(***************************************************************************)
\* Variant: the order in which the candidates are walked differs from one
\* request to the next.
engine_by_call ==
    file_format_info.available_engines[
        IF call_no = 1 THEN idx
        ELSE Len(file_format_info.available_engines) - idx + 1]

\* A loop that walks available_engines from its end.
engine_reversed ==
    file_format_info.available_engines[
        Len(file_format_info.available_engines) - idx + 1]

\* for engine in file_format_info.available_engines
engine == file_format_info.available_engines[idx]

Call(op, group, res) ==
    [engine |-> engine, op |-> op, group |-> group, res |-> res,
     kwargs |-> DEFAULT_XR_OPEN_KWARGS[engine],
     backend_kwargs |-> DEFAULT_ENGINE_BACKEND_KWARGS[engine]]

Error(type, op) == [type |-> type, engine |-> engine, op |-> op]

Handle(kind, group) == [engine |-> engine, kind |-> kind, group |-> group]

NewHandle == Len(opened) + 1

\* A try statement without the except NotImplementedError clause.
ExceptClauseNoFallback(res) == "record"

\* Which except clause takes an error raised inside the try block.
ExceptClause(res) ==
    IF res = "NotImplementedError" THEN "fallback" ELSE "record"

\* Variant: the failed engine is tried again instead of the next one.
RecordAndRetry(err) ==
    /\ exceptions' = Append(exceptions, err)
    /\ idx' = idx
    /\ pc' = "engine"

\* except Exception: exceptions.append(exc); continue
RecordAndContinue(err) ==
    /\ exceptions' = Append(exceptions, err)
    /\ idx' = idx + 1
    /\ pc' = "engine"

\* An error raised inside the try block of one engine's attempt.
RaisedInTry(res, op) ==
    IF ExceptClause(res) = "fallback"
    THEN /\ pc' = "fallback"
         /\ UNCHANGED <<idx, exceptions>>
    ELSE RecordAndContinue(Error(res, op))

\* if not file_format_info.is_supported: raise ImportError(...)
ResolverEntry ==
    /\ pc = "open"
    /\ IF ~is_supported(file_format_info)
       THEN /\ raised' = [type |-> "ImportError", engine |-> "none",
                          op |-> "no_engines"]
            /\ pc' = "open_raised"
            /\ UNCHANGED <<idx, exceptions>>
       ELSE /\ idx' = 1
            /\ exceptions' = <<>>
            /\ pc' = "engine"
            /\ UNCHANGED raised
    /\ UNCHANGED <<calls, output, env, request, file_format_info, probed, groups, gi, xds_dict,
                   attempts, opened, live, xds_or_xdt, used_engine, info,
                   applied_style, result>>

\* xr.open_datatree(file_path, engine=engine, ...); return xdt_or_xds, engine
OpenDatatree ==
    /\ pc = "engine"
    /\ idx <= Len(file_format_info.available_engines)
    /\ can_use_datatree(engine)
    /\ \E res \in Outcomes :
        /\ attempts' = Append(attempts, Call("open_datatree", "/", res))
        /\ IF res = "ok"
           THEN /\ opened' = Append(opened, Handle("tree", "/"))
                /\ live' = live \cup {NewHandle}
                /\ xds_or_xdt' = [shape |-> "tree",
                                  items |-> <<[key |-> "/", handle |-> NewHandle]>>]
                /\ used_engine' = engine
                /\ pc' = "opened"
                /\ UNCHANGED <<idx, exceptions>>
           ELSE /\ RaisedInTry(res, "open_datatree")
                /\ UNCHANGED <<opened, live, xds_or_xdt, used_engine>>
    /\ UNCHANGED <<calls, output, env, request, file_format_info, probed, groups, gi, xds_dict,
                   raised, info, applied_style, result>>

\* The group enumeration of the per-group flat open: netCDF4.Dataset /
\* h5netcdf.File inside a with block, or only the root for the other engines.
EnumerateGroups ==
    /\ pc = "engine"
    /\ idx <= Len(file_format_info.available_engines)
    /\ ~can_use_datatree(engine)
    /\ IF engine \in {"netcdf4", "h5netcdf"}
       THEN /\ probed' = probed \cup {ENGINE_PACKAGES[engine]}
            /\ IF check_package_availability(ENGINE_PACKAGES[engine])
               THEN \E res \in Outcomes :
                      /\ attempts' = Append(attempts, Call("enumerate", "/", res))
                      /\ IF res = "ok"
                         THEN /\ groups' = <<"/">> \o file_groups
                              /\ gi' = 1
                              /\ xds_dict' = <<>>
                              /\ pc' = "flat_open"
                              /\ UNCHANGED <<idx, exceptions>>
                         ELSE /\ RaisedInTry(res, "enumerate")
                              /\ UNCHANGED <<groups, gi, xds_dict>>
               ELSE /\ groups' = <<"/">>
                    /\ gi' = 1
                    /\ xds_dict' = <<>>
                    /\ pc' = "flat_open"
                    /\ UNCHANGED <<idx, exceptions, attempts>>
       ELSE /\ groups' = <<"/">>
            /\ gi' = 1
            /\ xds_dict' = <<>>
            /\ pc' = "flat_open"
            /\ UNCHANGED <<idx, exceptions, attempts, probed>>
    /\ UNCHANGED <<calls, output, env, request, file_format_info, opened, live, xds_or_xdt,
                   used_engine, raised, info, applied_style, result>>

\* Outcomes a flat open of the root with the current engine can have: the
\* outcome it already had in this request, if any.
RootOpenOutcomes ==
    LET seen == {attempts[i].res : i \in {j \in 1..Len(attempts) :
                    /\ attempts[j].engine = engine
                    /\ attempts[j].op \in {"open_dataset", "fallback_open_dataset"}
                    /\ attempts[j].group = "/"}}
    IN  IF seen = {} THEN Outcomes ELSE seen

\* One xr.open_dataset of the dict comprehension; after the last group:
\* return xds_dict, engine
OpenDatasetOfGroup ==
    /\ pc = "flat_open"
    /\ gi <= Len(groups)
    /\ \E res \in (IF groups[gi] = "/" THEN RootOpenOutcomes ELSE Outcomes) :
        /\ attempts' = Append(attempts, Call("open_dataset", groups[gi], res))
        /\ IF res = "ok"
           THEN /\ opened' = Append(opened, Handle("dataset", groups[gi]))
                /\ live' = live \cup {NewHandle}
                /\ xds_dict' = Append(xds_dict,
                                      [key |-> groups[gi], handle |-> NewHandle])
                /\ gi' = gi + 1
                /\ IF gi = Len(groups)
                   THEN /\ xds_or_xdt' = [shape |-> "dict", items |-> xds_dict']
                        /\ used_engine' = engine
                        /\ pc' = "opened"
                   ELSE /\ pc' = "flat_open"
                        /\ UNCHANGED <<xds_or_xdt, used_engine>>
                /\ UNCHANGED <<idx, exceptions>>
           ELSE /\ RaisedInTry(res, "open_dataset")
                /\ UNCHANGED <<opened, live, xds_dict, gi, xds_or_xdt, used_engine>>
    /\ UNCHANGED <<calls, output, env, request, file_format_info, probed, groups, raised, info,
                   applied_style, result>>

\* except NotImplementedError: xds = xr.open_dataset(...); return xds, engine
\* An error raised here is raised inside an except clause: no other clause of
\* the same try statement catches it, it leaves the function.
FallbackOpenDataset ==
    /\ pc = "fallback"
    /\ \E res \in RootOpenOutcomes :
        /\ attempts' = Append(attempts, Call("fallback_open_dataset", "/", res))
        /\ IF res = "ok"
           THEN /\ opened' = Append(opened, Handle("dataset", "/"))
                /\ live' = live \cup {NewHandle}
                /\ xds_or_xdt' = [shape |-> "dataset",
                                  items |-> <<[key |-> "/", handle |-> NewHandle]>>]
                /\ used_engine' = engine
                /\ pc' = "opened"
                /\ UNCHANGED raised
           ELSE /\ raised' = Error(res, "fallback_open_dataset")
                /\ pc' = "open_raised"
                /\ UNCHANGED <<opened, live, xds_or_xdt, used_engine>>
    /\ UNCHANGED <<calls, output, env, request, file_format_info, probed, idx, exceptions,
                   groups, gi, xds_dict, info, applied_style, result>>

\* raise exceptions[0]
RaiseFirstError ==
    /\ pc = "engine"
    /\ idx > Len(file_format_info.available_engines)
    /\ raised' = exceptions[1]
    /\ pc' = "open_raised"
    /\ UNCHANGED <<calls, output, env, request, file_format_info, probed, idx, exceptions,
                   groups, gi, xds_dict, attempts, opened, live, xds_or_xdt,
                   used_engine, info, applied_style, result>>

\* raise exceptions[-1]
RaiseLastError ==
    /\ pc = "engine"
    /\ idx > Len(file_format_info.available_engines)
    /\ raised' = exceptions[Len(exceptions)]
    /\ pc' = "open_raised"
    /\ UNCHANGED <<calls, output, env, request, file_format_info, probed, idx, exceptions,
                   groups, gi, xds_dict, attempts, opened, live, xds_or_xdt,
                   used_engine, info, applied_style, result>>


(***************************************************************************)
(* The arrays of the file: dims and shape of a variable are read from the  *)
(* file when the variable is extracted or plotted                          *)
(***************************************************************************)
MaxRank == 5
MaxExtent == 5

\* The letters of the dimension names in use.
Letters ==
    "time"   :> <<"t", "i", "m", "e">> @@
    "level"  :> <<"l", "e", "v", "e", "l">> @@
    "band"   :> <<"b", "a", "n", "d">> @@
    "member" :> <<"m", "e", "m", "b", "e", "r">> @@
    "sample" :> <<"s", "a", "m", "p", "l", "e">> @@
    "index"  :> <<"i", "n", "d", "e", "x">> @@
    "y"      :> <<"y">> @@
    "x"      :> <<"x">>

spatial_patterns ==
    << <<"x">>, <<"y">>, <<"l", "o", "n">>, <<"l", "a", "t">>,
       <<"l", "o", "n", "g", "i", "t", "u", "d", "e">>,
       <<"l", "a", "t", "i", "t", "u", "d", "e">>,
       <<"e", "a", "s", "t">>, <<"w", "e", "s", "t">>,
       <<"n", "o", "r", "t", "h">>, <<"s", "o", "u", "t", "h">>,
       <<"e", "a", "s", "t", "i", "n", "g">>, <<"w", "e", "s", "t", "i", "n", "g">>,
       <<"n", "o", "r", "t", "h", "i", "n", "g">>,
       <<"s", "o", "u", "t", "h", "i", "n", "g">> >>

\* pattern in dim_name
Contains(letters, pattern) ==
    \E k \in 0..(Len(letters) - Len(pattern)) :
        \A j \in 1..Len(pattern) : letters[k + j] = pattern[j]

is_spatial_dimension(dim_name) ==
    \E p \in 1..Len(spatial_patterns) :
        Contains(Letters[dim_name], spatial_patterns[p])

\* Dimension names by axis, counted from the last axis backwards: one naming
\* whose trailing axes look spatial, one with no spatial-looking name and one
\* whose last name only contains a spatial pattern ("index").
DimNamings ==
    { <<"x", "y", "band", "level", "time">>,
      <<"band", "level", "time", "member", "sample">>,
      <<"index", "band", "level", "time", "member">> }

\* Extent of an axis: the first axis takes 1, 3 or MaxExtent, the second 1 or
\* 2, every further axis 2.
Shapes ==
    { [i \in 1..rank |-> IF i = 1 THEN first ELSE IF i = 2 THEN second ELSE 2] :
        rank \in 0..MaxRank, first \in {1, 3, MaxExtent}, second \in {1, 2} }

\* var.attrs, as the text of the mapping.
Attrs == {"{}", "{units: K}"}

DataArray(name, naming, shape, attrs) ==
    [name  |-> name,
     dims  |-> [i \in 1..Len(shape) |-> naming[Len(shape) - i + 1]],
     shape |-> shape,
     attrs |-> attrs]

\* group[variable_name], for the arrays a file can hold under that name.
RenderVars(variable_name) ==
    { DataArray(variable_name, naming, shape, attrs) :
        naming \in DimNamings, shape \in Shapes, attrs \in Attrs }

(***************************************************************************)
(* The content of the file, as xarray presents it                          *)
(***************************************************************************)
GroupDataVars(group) == IF group = "/" THEN root_data_vars ELSE <<"temperature">>

GroupCoords(group) == IF GroupDataVars(group) = <<>> THEN <<>> ELSE <<"time">>

\* The arrays get_file_info can find under the name of a data variable.
InfoArrays(name) ==
    { DataArray(name, <<"x", "y", "band", "level", "time">>, shape, "{units: K}") :
        shape \in {<<>>, <<3>>, <<3, 2>>, <<1, 2, 2>>} }

\* The index coordinate of a dimension.
CoordArray(name) == DataArray(name, <<name>>, <<3>>, "{}")

\* xds.dims: the size of every dimension of every variable of the Dataset.
GroupDims(arrays) ==
    LET sizes == UNION { {<<arrays[k].dims[i], arrays[k].shape[i]>> :
                              i \in 1..Len(arrays[k].dims)} : k \in 1..Len(arrays) }
    IN  [d \in {p[1] : p \in sizes} |-> (CHOOSE p \in sizes : p[1] = d)[2]]

\* DataTree.to_dict(): one Dataset per node, keyed by the node's path, in the
\* order sorted(..., key=lambda x: x[0]) gives.
TreeToDict ==
    <<[key |-> "/", group |-> "/", obj |-> "Dataset"]>> \o
    [i \in 1..Len(file_groups) |->
        [key |-> "/" \o file_groups[i], group |-> file_groups[i], obj |-> "Dataset"]]

\* The (key, value) pairs the non-tree branch iterates: the dict of datasets,
\* or, for the single Dataset of the fallback, the Mapping interface of
\* xr.Dataset, whose keys are the data variable names and whose values are
\* DataArrays.
MappingItems(obj) ==
    IF obj.shape = "dict"
    THEN [i \in 1..Len(obj.items) |->
            [key |-> obj.items[i].key, group |-> obj.items[i].key, obj |-> "Dataset"]]
    ELSE [i \in 1..Len(root_data_vars) |->
            [key |-> root_data_vars[i], group |-> "/", obj |-> "DataArray"]]

\* Handles the "Close Start ... Close End" section closes: the tree, or what
\* xds.close() reaches for each value of xds_dict.items() (a DataArray taken
\* out of a Dataset owns no file handle).
ClosedByCloseSection(obj, datatree_flag) ==
    IF datatree_flag \/ obj.shape = "dict"
    THEN {obj.items[i].handle : i \in 1..Len(obj.items)}
    ELSE {}

(***************************************************************************)
(* get_file_info                                                           *)
(***************************************************************************)
CheckIntegrity == "Check if the file is corrupted or in an unsupported format"
InstallPackages == "Install required packages: pip install"

FileInfoError(error, error_type, suggestion, packages) ==
    [kind |-> "FileInfoError", error |-> error, error_type |-> error_type,
     suggestion |-> suggestion, packages |-> packages,
     format_info |-> file_format_info]

Propagated(error) == [kind |-> "raised", error |-> error]

GetFileInfoStart ==
    /\ pc = "idle"
    /\ mode' = "info"
    /\ pc' = "info_detect"
    /\ UNCHANGED <<calls, output, env, plot_type, style, variable_path, file_format_info, probed,
                   resolver, live, info, applied_style, result>>

\* file_format_info = detect_file_format(file_path), outside any try block:
\* an error find_spec raises leaves get_file_info.
InfoDetect ==
    /\ pc = "info_detect"
    /\ probed' = ProbedBy(ext)
    /\ \E probe_raises \in {r \in BOOLEAN : r => ProbedBy(ext) # {}} :
        IF probe_raises
        THEN /\ result' = Propagated([type |-> "ValueError", engine |-> "none",
                                      op |-> "find_spec"])
             /\ pc' = "done"
             /\ UNCHANGED file_format_info
        ELSE /\ file_format_info' = detect_file_format(ext)
             /\ pc' = "open"
             /\ UNCHANGED result
    /\ UNCHANGED <<calls, output, env, request, resolver, live, info, applied_style>>

\* Variant: the resolver's ImportError is not turned into an error result.
InfoOpenRaisedUncaught ==
    /\ pc = "open_raised"
    /\ mode = "info"
    /\ result' = Propagated(raised)
    /\ pc' = "done"
    /\ UNCHANGED <<calls, output, env, request, file_format_info, probed, resolver, live, info,
                   applied_style>>

\* except ImportError: return FileInfoError(error_type="ImportError", ...);
\* any other error raised by the resolver is not caught.
InfoOpenRaised ==
    /\ pc = "open_raised"
    /\ mode = "info"
    /\ result' = IF raised.type = "ImportError"
                 THEN FileInfoError("Missing dependencies", "ImportError",
                                    InstallPackages,
                                    file_format_info.missing_packages)
                 ELSE Propagated(raised)
    /\ pc' = "done"
    /\ UNCHANGED <<calls, output, env, request, file_format_info, probed, resolver, live, info,
                   applied_style>>

\* Variant: the groups extracted before the error are returned as a result.
InfoExceptPartial(error_type) ==
    /\ result' = [kind |-> "FileInfoResult",
                  format_info |-> file_format_info,
                  used_engine |-> used_engine,
                  attributes_flattened |->
                      IF info = NoResult THEN <<>> ELSE info.attributes_flattened]
    /\ pc' = "done"

\* except Exception as exc: return FileInfoError(..., suggestion="Check if ...")
InfoExcept(error_type) ==
    /\ result' = FileInfoError([type |-> error_type, engine |-> used_engine,
                                op |-> "extract"],
                               error_type, CheckIntegrity, <<>>)
    /\ pc' = "done"

\* The reprs of the whole file and flat_dict_of_xds, then the empty
\* FileInfoResult.
InfoRepr ==
    /\ pc = "opened"
    /\ mode = "info"
    /\ \E res \in {"ok", "OSError"} :
        IF res = "ok"
        THEN /\ info' = [items |-> IF can_use_datatree(used_engine)
                                      /\ xds_or_xdt.shape = "tree"
                                   THEN TreeToDict ELSE MappingItems(xds_or_xdt),
                         k |-> 1,
                         read |-> <<>>,
                         dimensions_flattened |-> <<>>,
                         coordinates_flattened |-> <<>>,
                         variables_flattened |-> <<>>,
                         attributes_flattened |-> <<>>,
                         xarray_html_repr_flattened |-> <<>>,
                         xarray_text_repr_flattened |-> <<>>]
             /\ pc' = "info_loop"
             /\ UNCHANGED result
        ELSE /\ InfoExcept(res)
             /\ UNCHANGED info
    /\ UNCHANGED <<calls, output, env, request, file_format_info, probed, resolver, live,
                   applied_style>>

Put(map, key, value) == (key :> value) @@ map

RECURSIVE Product(_)
Product(shape) == IF shape = <<>> THEN 1 ELSE Head(shape) * Product(Tail(shape))

\* Variant: unit extents are dropped from the shape list.
create_variable_info_squeezed(var_name, var) ==
    [name       |-> var_name,
     dtype      |-> "float64",
     shape      |-> SelectSeq(var.shape, LAMBDA n : n # 1),
     dimensions |-> var.dims,
     size_bytes |-> Product(var.shape) * 8,
     attributes |-> var.attrs]

create_variable_info(var_name, var) ==
    [name       |-> var_name,
     dtype      |-> "float64",
     shape      |-> var.shape,
     dimensions |-> var.dims,
     size_bytes |-> Product(var.shape) * 8,
     attributes |-> var.attrs]

create_coord_info(coord_name, coord) ==
    [name       |-> coord_name,
     dtype      |-> "float64",
     shape      |-> coord.shape,
     dimensions |-> coord.dims,
     size_bytes |-> Product(coord.shape) * 8,
     attributes |-> coord.attrs]

\* One iteration of "for group in flat_dict_of_xds.keys()".  xds.dims of a
\* DataArray is a tuple: xds.dims.items() raises AttributeError.
ExtractGroup ==
    /\ pc = "info_loop"
    /\ info.k <= Len(info.items)
    /\ LET item == info.items[info.k]
           coords == GroupCoords(item.group)
           data_vars == GroupDataVars(item.group)
       IN \E res \in (IF item.obj = "DataArray" THEN {"AttributeError"}
                      ELSE {"ok", "OSError"}) :
            IF res = "ok"
            THEN \E arrays \in (IF data_vars = <<>> THEN {<<>>}
                                ELSE {<<var>> : var \in InfoArrays(data_vars[1])}) :
                 LET coord_arrays == [i \in 1..Len(coords) |-> CoordArray(coords[i])]
                 IN
                 /\ info' = [info EXCEPT
                       !.k = @ + 1,
                       !.read = @ \o coord_arrays \o arrays,
                       !.attributes_flattened = Put(@, item.key, "attrs"),
                       !.dimensions_flattened =
                           Put(@, item.key, GroupDims(coord_arrays \o arrays)),
                       !.coordinates_flattened =
                           IF coords = <<>> THEN @
                           ELSE Put(@, item.key,
                                    [i \in 1..Len(coords) |->
                                        create_coord_info(coords[i], coord_arrays[i])]),
                       !.variables_flattened =
                           IF data_vars = <<>> THEN @
                           ELSE Put(@, item.key,
                                    [i \in 1..Len(data_vars) |->
                                        create_variable_info(data_vars[i], arrays[i])]),
                       !.xarray_html_repr_flattened = Put(@, item.key, "html"),
                       !.xarray_text_repr_flattened = Put(@, item.key, "text")]
                 /\ UNCHANGED <<pc, result>>
            ELSE /\ InfoExcept(res)
                 /\ UNCHANGED info
    /\ UNCHANGED <<calls, output, env, request, file_format_info, probed, resolver, live,
                   applied_style>>

\* The close section and "return info".
InfoCloseAndReturn ==
    /\ pc = "info_loop"
    /\ info.k > Len(info.items)
    /\ live' = live \ ClosedByCloseSection(xds_or_xdt,
                   can_use_datatree(used_engine) /\ xds_or_xdt.shape = "tree")
    /\ result' = [kind |-> "FileInfoResult",
                  format_info |-> file_format_info,
                  used_engine |-> used_engine,
                  dimensions_flattened |-> info.dimensions_flattened,
                  coordinates_flattened |-> info.coordinates_flattened,
                  variables_flattened |-> info.variables_flattened,
                  attributes_flattened |-> info.attributes_flattened,
                  xarray_html_repr_flattened |-> info.xarray_html_repr_flattened,
                  xarray_text_repr_flattened |-> info.xarray_text_repr_flattened]
    /\ pc' = "done"
    /\ UNCHANGED <<calls, output, env, request, file_format_info, probed, resolver, info,
                   applied_style>>

(***************************************************************************)
(* Variable paths: PurePosixPath(variable_path)                            *)
(***************************************************************************)
\* A path is whether it starts with "/" and its segments; a segment is the
\* sequence of its dot-separated parts ("temperature.hourly" has two).
AbsPath(segs) == [abs |-> TRUE, segs |-> segs]
RelPath(segs) == [abs |-> FALSE, segs |-> segs]

VariablePaths ==
    {AbsPath(<< <<"temperature">> >>),      \* "/temperature"
     RelPath(<< <<"temperature">> >>),      \* "temperature"
     AbsPath(<< <<"nonexistent">> >>),      \* "/nonexistent"
     AbsPath(<< <<"temperature", "hourly">> >>)}    \* "/temperature.hourly"

RECURSIVE Join(_, _)
Join(strs, sep) ==
    IF Len(strs) = 0 THEN ""
    ELSE IF Len(strs) = 1 THEN strs[1]
    ELSE strs[1] \o sep \o Join(Tail(strs), sep)

\* path.parent
Parent(path) == [path EXCEPT !.segs = SubSeq(@, 1, Len(@) - 1)]

\* str(path)
PathStr(path) ==
    IF path.segs = <<>> THEN (IF path.abs THEN "/" ELSE ".")
    ELSE (IF path.abs THEN "/" ELSE "") \o
         Join([i \in 1..Len(path.segs) |-> Join(path.segs[i], ".")], "/")

\* path.stem: the final segment without its last suffix
Stem(path) ==
    LET name == path.segs[Len(path.segs)]
    IN  IF Len(name) = 1 THEN name[1]
        ELSE Join(SubSeq(name, 1, Len(name) - 1), ".")

InSeq(x, seq) == \E i \in 1..Len(seq) : seq[i] = x

\* xdt[str(group_name)]: a DataTree resolves the path from the root node, "/"
\* and "." being the root itself; "KeyError" when no such node exists.
TreeGroup(group_path) ==
    IF group_path.segs = <<>> THEN "/"
    ELSE IF Len(group_path.segs) = 1 /\ InSeq(Join(group_path.segs[1], "."), file_groups)
    THEN Join(group_path.segs[1], ".")
    ELSE "KeyError"

\* xds_dict[str(group_name)]: the keys of the dict of datasets; a single
\* Dataset has no variable of a group's name.
DictGroup(obj, group_path) ==
    IF obj.shape = "dict"
       /\ \E i \in 1..Len(obj.items) : obj.items[i].key = PathStr(group_path)
    THEN PathStr(group_path)
    ELSE "KeyError"

(***************************************************************************)
(* create_plot                                                             *)
(***************************************************************************)
KnownStyles == {"default", "dark_background"}
Styles == {"", "dark_background", "no_such_style"}
PlotTypes == {"auto", "histogram"}

CreatePlotError(error) ==
    [kind |-> "CreatePlotError", error |-> error, format_info |-> file_format_info]

\* except Exception as exc: return CreatePlotError(..., format_info=file_format_info)
\* file_format_info is a local that is only bound once detect_file_format has
\* returned: reading it before raises UnboundLocalError out of the handler.
PlotExcept(error_type) ==
    /\ result' = IF file_format_info = Unbound
                 THEN Propagated([type |-> "UnboundLocalError", engine |-> "none",
                                  op |-> "except"])
                 ELSE CreatePlotError(error_type)
    /\ pc' = "done"

CreatePlotStart ==
    /\ pc = "idle"
    /\ mode' = "plot"
    /\ plot_type' \in PlotTypes
    /\ style' \in Styles
    /\ variable_path' \in VariablePaths
    /\ pc' = "plot_check"
    /\ UNCHANGED <<calls, output, env, file_format_info, probed, resolver, live, info,
                   applied_style, result>>

\* A create_plot that does not look at plot_type before detecting the format.
PlotCheckTypeSkipped ==
    /\ pc = "plot_check"
    /\ pc' = "plot_detect"
    /\ UNCHANGED <<calls, output, env, request, file_format_info, probed, resolver, live, info,
                   applied_style, result>>

\* if plot_type != "auto": raise ValueError(...)
PlotCheckType ==
    /\ pc = "plot_check"
    /\ IF plot_type # "auto"
       THEN PlotExcept("ValueError")
       ELSE /\ pc' = "plot_detect"
            /\ UNCHANGED result
    /\ UNCHANGED <<calls, output, env, request, file_format_info, probed, resolver, live, info,
                   applied_style>>

\* file_format_info = detect_file_format(file_path), inside the try block.
PlotDetect ==
    /\ pc = "plot_detect"
    /\ probed' = ProbedBy(ext)
    /\ \E probe_raises \in {r \in BOOLEAN : r => ProbedBy(ext) # {}} :
        IF probe_raises
        THEN /\ PlotExcept("ValueError")
             /\ UNCHANGED file_format_info
        ELSE /\ file_format_info' = detect_file_format(ext)
             /\ pc' = "plot_prepare"
             /\ UNCHANGED result
    /\ UNCHANGED <<calls, output, env, request, resolver, live, info, applied_style>>

\* Variant: a style matplotlib does not know ends the request.
PlotPrepareStyleFatal ==
    /\ pc = "plot_prepare"
    /\ IF ~is_supported(file_format_info)
       THEN /\ result' = CreatePlotError("No engines available")
            /\ pc' = "done"
            /\ UNCHANGED <<probed, applied_style>>
       ELSE /\ probed' = probed \cup {"matplotlib"}
            /\ IF ~check_package_availability("matplotlib")
               THEN /\ result' = CreatePlotError("Matplotlib is not installed")
                    /\ pc' = "done"
                    /\ UNCHANGED applied_style
               ELSE IF style # "" /\ style \notin KnownStyles
               THEN /\ result' = CreatePlotError("OSError")
                    /\ pc' = "done"
                    /\ UNCHANGED applied_style
               ELSE /\ applied_style' = IF style # "" THEN style ELSE "default"
                    /\ pc' = "open"
                    /\ UNCHANGED result
    /\ UNCHANGED <<calls, output, env, request, file_format_info, resolver, live, info>>

\* The is_supported and matplotlib checks, then plt.style.use.
PlotPrepare ==
    /\ pc = "plot_prepare"
    /\ IF ~is_supported(file_format_info)
       THEN /\ result' = CreatePlotError("No engines available")
            /\ pc' = "done"
            /\ UNCHANGED <<probed, applied_style>>
       ELSE /\ probed' = probed \cup {"matplotlib"}
            /\ IF ~check_package_availability("matplotlib")
               THEN /\ result' = CreatePlotError("Matplotlib is not installed")
                    /\ pc' = "done"
                    /\ UNCHANGED applied_style
               ELSE /\ applied_style' = IF style # "" /\ style \in KnownStyles
                                        THEN style ELSE "default"
                    /\ pc' = "open"
                    /\ UNCHANGED result
    /\ UNCHANGED <<calls, output, env, request, file_format_info, resolver, live, info>>

PlotOpenRaised ==
    /\ pc = "open_raised"
    /\ mode = "plot"
    /\ PlotExcept(raised.type)
    /\ UNCHANGED <<calls, output, env, request, file_format_info, probed, resolver, live, info,
                   applied_style>>

\* Group and variable lookup; the variable-not-found exit closes and returns.
PlotSelectVariable ==
    /\ pc = "opened"
    /\ mode = "plot"
    /\ LET datatree_flag == can_use_datatree(used_engine) /\ xds_or_xdt.shape = "tree"
           group_name == Parent(variable_path)
           variable_name == Stem(variable_path)
           group == IF datatree_flag THEN TreeGroup(group_name)
                    ELSE DictGroup(xds_or_xdt, group_name)
       IN  IF group = "KeyError"
           THEN /\ PlotExcept("KeyError")
                /\ UNCHANGED live
           ELSE IF InSeq(variable_name, GroupDataVars(group))
                   \/ InSeq(variable_name, GroupCoords(group))
           THEN /\ pc' = "plot_render"
                /\ UNCHANGED <<live, result>>
           ELSE /\ live' = live \ ClosedByCloseSection(xds_or_xdt, datatree_flag)
                /\ result' = CreatePlotError("Variable not found in dataset")
                /\ pc' = "done"
    /\ UNCHANGED <<calls, output, env, request, file_format_info, probed, resolver, info,
                   applied_style>>

\* Variant: the checks on the last two dimension names are in force.
detect_plotting_strategy_spatial(var) ==
    LET dims == var.dims
        ndim == Len(var.shape)
        last_two_spatial == /\ Len(dims) >= 2
                            /\ is_spatial_dimension(dims[Len(dims) - 1])
                            /\ is_spatial_dimension(dims[Len(dims)])
    IN  IF ndim = 2 /\ last_two_spatial THEN "2d_classic"
        ELSE IF ndim = 3 /\ last_two_spatial
             THEN IF var.shape[1] = 1 THEN "2d_classic_isel" ELSE "3d_col"
        ELSE IF ndim = 4 /\ last_two_spatial THEN "4d_col_row"
        ELSE "default"

\* Variant: a unit first extent is not looked at.
detect_plotting_strategy_no_isel(var) ==
    LET dims == var.dims
        ndim == Len(var.shape)
    IN  IF ndim = 2 /\ Len(dims) >= 2 THEN "2d_classic"
        ELSE IF ndim = 3 /\ Len(dims) >= 2 THEN "3d_col"
        ELSE IF ndim = 4 /\ Len(dims) >= 2 THEN "4d_col_row"
        ELSE "default"

detect_plotting_strategy(var) ==
    LET dims == var.dims
        ndim == Len(var.shape)
    IN  IF ndim = 2 /\ Len(dims) >= 2 THEN "2d_classic"
        ELSE IF ndim = 3 /\ Len(dims) >= 2
             THEN IF var.shape[1] = 1 THEN "2d_classic_isel" ELSE "3d_col"
        ELSE IF ndim = 4 /\ Len(dims) >= 2 THEN "4d_col_row"
        ELSE "default"

Min(a, b) == IF a <= b THEN a ELSE b

\* col_wrap = min(4, var.shape[0])
MaxColWrap == 4

NoFacet == "none"

\* Variant: rows and columns exchanged in the two-axis facet.
PlotCallSwapped(var, strategy) ==
    CASE strategy = "2d_classic" ->
            [method |-> "imshow", isel |-> NoFacet, col |-> NoFacet,
             row |-> NoFacet, col_wrap |-> 0]
      [] strategy = "2d_classic_isel" ->
            [method |-> "imshow", isel |-> var.dims[1], col |-> NoFacet,
             row |-> NoFacet, col_wrap |-> 0]
      [] strategy = "3d_col" ->
            [method |-> "imshow", isel |-> NoFacet, col |-> var.dims[1],
             row |-> NoFacet, col_wrap |-> Min(MaxColWrap, var.shape[1])]
      [] strategy = "4d_col_row" ->
            [method |-> "imshow", isel |-> NoFacet, col |-> var.dims[1],
             row |-> var.dims[2], col_wrap |-> 0]
      [] OTHER ->
            [method |-> "plot", isel |-> NoFacet, col |-> NoFacet,
             row |-> NoFacet, col_wrap |-> 0]

\* The xarray plot call made for a strategy: the method, the dimension
\* index-selected at 0, the facet dimensions and the column wrap (0: not
\* passed).
PlotCall(var, strategy) ==
    CASE strategy = "2d_classic" ->
            [method |-> "imshow", isel |-> NoFacet, col |-> NoFacet,
             row |-> NoFacet, col_wrap |-> 0]
      [] strategy = "2d_classic_isel" ->
            [method |-> "imshow", isel |-> var.dims[1], col |-> NoFacet,
             row |-> NoFacet, col_wrap |-> 0]
      [] strategy = "3d_col" ->
            [method |-> "imshow", isel |-> NoFacet, col |-> var.dims[1],
             row |-> NoFacet, col_wrap |-> Min(MaxColWrap, var.shape[1])]
      [] strategy = "4d_col_row" ->
            [method |-> "imshow", isel |-> NoFacet, col |-> var.dims[2],
             row |-> var.dims[1], col_wrap |-> 0]
      [] OTHER ->
            [method |-> "plot", isel |-> NoFacet, col |-> NoFacet,
             row |-> NoFacet, col_wrap |-> 0]

\* The render (detect_plotting_strategy, var.plot..., savefig), the close
\* section and "return CreatePlotResult".
PlotRender ==
    /\ pc = "plot_render"
    /\ \E res \in {"ok", "TypeError"} :
        IF res = "ok"
        THEN /\ live' = live \ ClosedByCloseSection(xds_or_xdt,
                            can_use_datatree(used_engine) /\ xds_or_xdt.shape = "tree")
             /\ \E var \in RenderVars(Stem(variable_path)) :
                  LET strategy == detect_plotting_strategy(var)
                  IN  result' = [kind |-> "CreatePlotResult",
                                 variable_name |-> Stem(variable_path),
                                 var |-> var,
                                 strategy |-> strategy,
                                 plot_call |-> PlotCall(var, strategy),
                                 format_info |-> file_format_info]
             /\ pc' = "done"
        ELSE /\ PlotExcept(res)
             /\ UNCHANGED live
    /\ UNCHANGED <<calls, output, env, request, file_format_info, probed, resolver, info,
                   applied_style>>

Resolver ==
    \/ ResolverEntry
    \/ OpenDatatree
    \/ EnumerateGroups
    \/ OpenDatasetOfGroup
    \/ FallbackOpenDataset
    \/ RaiseLastError

GetFileInfo ==
    \/ GetFileInfoStart
    \/ InfoDetect
    \/ InfoOpenRaised
    \/ InfoRepr
    \/ ExtractGroup
    \/ InfoCloseAndReturn

CreatePlot ==
    \/ CreatePlotStart
    \/ PlotCheckType
    \/ PlotDetect
    \/ PlotPrepare
    \/ PlotOpenRaised
    \/ PlotSelectVariable
    \/ PlotRender

Next == Resolver \/ GetFileInfo \/ CreatePlot

Spec == Init /\ [][Next]_vars


(***************************************************************************)
(* Properties                                                              *)
(***************************************************************************)
available_engines ==
    IF file_format_info = Unbound THEN <<>> ELSE file_format_info.available_engines

\* Position of an engine in available_engines.
Pos(e) == CHOOSE i \in 1..Len(available_engines) : available_engines[i] = e

Attempted(e) == \E i \in 1..Len(attempts) : attempts[i].engine = e

\* The resolver returned a handle to its caller.
OpenReturned == used_engine # "none"

\* Every candidate was attempted and its attempt was recorded as failed.
AllCandidatesRaised ==
    /\ Len(available_engines) > 0
    /\ \A j \in 1..Len(available_engines) :
          \E i \in 1..Len(attempts) :
              attempts[i].engine = available_engines[j] /\ attempts[i].res # "ok"
    /\ ~OpenReturned

\* C1: on every exit of get_file_info and create_plot that follows a
\* successful open, every handle that was opened has been closed.
C1_HandlesClosedOnExit ==
    (pc = "done" /\ OpenReturned) => live = {}

\* C2: when at least one backend is available and every available backend
\* raises on open, the info request returns an error result carrying the last
\* backend's error and the check-file-integrity suggestion; it does not raise.
C2_AllBackendsFailIsErrorResult ==
    (pc = "done" /\ mode = "info" /\ AllCandidatesRaised
        /\ Len(exceptions) = Len(available_engines))
    => /\ result.kind = "FileInfoError"
       /\ result.suggestion = CheckIntegrity
       /\ result.error = exceptions[Len(exceptions)]

\* No call into a backend raised a decode error: the tree open may be not
\* implemented, every other call succeeded.
WellFormedRun ==
    /\ \A i \in 1..Len(attempts) :
          \/ attempts[i].res = "ok"
          \/ attempts[i].op = "open_datatree" /\ attempts[i].res = "NotImplementedError"
    /\ ~(result.kind = "FileInfoError" /\ result.error_type = "OSError")

\* C3: for a well-formed file with an available backend, whichever shape the
\* resolver returns, get_file_info returns a success result whose per-group
\* maps contain the root key "/".
C3_WellFormedGivesRootKey ==
    (pc = "done" /\ mode = "info" /\ Len(available_engines) > 0 /\ WellFormedRun)
    => /\ result.kind = "FileInfoResult"
       /\ "/" \in DOMAIN result.dimensions_flattened
       /\ "/" \in DOMAIN result.attributes_flattened
       /\ "/" \in DOMAIN result.xarray_html_repr_flattened
       /\ "/" \in DOMAIN result.xarray_text_repr_flattened

\* C4: the backends are attempted in the order of available_engines, and the
\* resolver returns at the first success: the returned engine is the last one
\* attempted, every engine before it in the list was attempted and recorded as
\* failed, and no engine after it is attempted.
C4_FirstSuccessInOrder ==
    /\ \A i, k \in 1..Len(attempts) :
          i < k => Pos(attempts[i].engine) <= Pos(attempts[k].engine)
    /\ OpenReturned =>
          /\ attempts[Len(attempts)].engine = used_engine
          /\ attempts[Len(attempts)].res = "ok"
          /\ Len(exceptions) = Pos(used_engine) - 1
          /\ \A j \in 1..(Pos(used_engine) - 1) :
                /\ Attempted(available_engines[j])
                /\ exceptions[j].engine = available_engines[j]
          /\ \A j \in (Pos(used_engine) + 1)..Len(available_engines) :
                ~Attempted(available_engines[j])

\* The resolver returned the second of three available engines.
C4_Witness ==
    /\ OpenReturned
    /\ Len(available_engines) = 3
    /\ used_engine = available_engines[2]

\* C5: at most one backend has live handles on the file, and when the
\* resolver is about to attempt a candidate every handle of the earlier
\* attempts has been closed.
C5_OneBackendLive ==
    /\ \A h1, h2 \in live : opened[h1].engine = opened[h2].engine
    /\ pc = "engine" => live = {}

\* C6: an error raised inside one backend's attempt leaves the resolver only
\* when no untried available backend remains.
C6_NoPropagationWhileUntried ==
    (pc = "open_raised" /\ raised.op # "no_engines")
    => \A j \in 1..Len(available_engines) : Attempted(available_engines[j])

\* C7: after a not-implemented signal of the tree open, the next backend call
\* is a flat open with the same backend and the same options, and if it
\* succeeds the resolver returns its handle with that backend's id.
C7_FallbackOnNotImplemented ==
    \A i \in 1..Len(attempts) :
       (attempts[i].op = "open_datatree" /\ attempts[i].res = "NotImplementedError")
       => IF i = Len(attempts)
          THEN pc = "fallback" /\ engine = attempts[i].engine
          ELSE /\ attempts[i + 1].op = "fallback_open_dataset"
               /\ attempts[i + 1].engine = attempts[i].engine
               /\ attempts[i + 1].kwargs = attempts[i].kwargs
               /\ attempts[i + 1].backend_kwargs = attempts[i].backend_kwargs
               /\ attempts[i + 1].res = "ok" =>
                     /\ i + 1 = Len(attempts)
                     /\ used_engine = attempts[i].engine
                     /\ xds_or_xdt.shape = "dataset"
                     /\ opened[xds_or_xdt.items[1].handle]
                           = [engine |-> attempts[i].engine, kind |-> "dataset",
                              group |-> "/"]

\* The flat open after a not-implemented tree open succeeded and was returned.
C7_Witness ==
    /\ Len(attempts) >= 2
    /\ attempts[Len(attempts) - 1].op = "open_datatree"
    /\ attempts[Len(attempts) - 1].res = "NotImplementedError"
    /\ attempts[Len(attempts)].res = "ok"
    /\ xds_or_xdt.shape = "dataset"

\* C8: the resolver raises the no-backend-available error, without any open,
\* exactly when available_engines is empty; when every candidate raised, the
\* error it raises is the one of the last candidate of the list.
C8_ResolverErrors ==
    pc = "open_raised" =>
       /\ raised.op = "no_engines" <=> Len(available_engines) = 0
       /\ raised.op = "no_engines" => attempts = <<>> /\ opened = <<>>
       /\ AllCandidatesRaised =>
             /\ raised.engine = available_engines[Len(available_engines)]
             /\ \E i \in 1..Len(attempts) :
                   /\ attempts[i].engine = raised.engine
                   /\ attempts[i].op = raised.op
                   /\ attempts[i].res = raised.type

\* Three candidates were attempted, each raised, and the resolver raised.
C8_Witness ==
    /\ pc = "open_raised"
    /\ Len(available_engines) = 3
    /\ Len(exceptions) = 3

\* C9: create_plot never raises: it returns a CreatePlotResult or a
\* CreatePlotError that carries the format info.
C9_CreatePlotNeverRaises ==
    (pc = "done" /\ mode = "plot")
    => /\ result.kind \in {"CreatePlotResult", "CreatePlotError"}
       /\ result.format_info # Unbound

C11_NotFoundClosesHandles ==
    (pc = "done" /\ mode = "plot" /\ OpenReturned /\ WellFormedRun
        /\ variable_path = AbsPath(<< <<"nonexistent">> >>))
    => /\ result.kind = "CreatePlotError"
       /\ result.error = "Variable not found in dataset"
       /\ live = {}


\* The final segment of a path, as written.
FullName(path) == Join(path.segs[Len(path.segs)], ".")

\* C12: the whole final segment of variable_path is the variable name: with
\* "/temperature.hourly" a root variable "temperature.hourly" is found and
\* plotted (unless the render itself raises).
C12_DottedNameFound ==
    (pc = "done" /\ mode = "plot" /\ OpenReturned
        /\ xds_or_xdt.shape \in {"tree", "dict"}
        /\ variable_path = AbsPath(<< <<"temperature", "hourly">> >>)
        /\ InSeq(FullName(variable_path), GroupDataVars("/")))
    => \/ /\ result.kind = "CreatePlotResult"
          /\ result.variable_name = FullName(variable_path)
       \/ /\ result.kind = "CreatePlotError"
          /\ result.error = "TypeError"


\* The packages required by the candidates of a registered extension.
RequiredPackages(file_extension) ==
    {ENGINE_PACKAGES[FORMAT_ENGINE_MAP[file_extension][i]] :
        i \in 1..Len(FORMAT_ENGINE_MAP[file_extension])}

\* No dependency of the file's extension is installed, and the probes returned.
NoDependencyInstalled ==
    /\ ext \in DOMAIN FORMAT_ENGINE_MAP
    /\ RequiredPackages(ext) \cap installed = {}
    /\ file_format_info # Unbound

\* C13: an info request on a registered extension none of whose dependencies
\* is installed returns the missing-dependency error, its install suggestion
\* names the (non-empty) list of missing packages, no backend call was made
\* and no handle exists.
C13_MissingDependencyNoIO ==
    (pc = "done" /\ mode = "info" /\ NoDependencyInstalled)
    => /\ result.kind = "FileInfoError"
       /\ result.error_type = "ImportError"
       /\ result.suggestion = InstallPackages
       /\ result.packages # <<>>
       /\ {result.packages[i] : i \in 1..Len(result.packages)}
              = RequiredPackages(ext)
       /\ attempts = <<>>
       /\ opened = <<>>
       /\ live = {}

C13_Witness ==
    /\ pc = "done" /\ mode = "info" /\ NoDependencyInstalled
    /\ ext = ".nc"
    /\ result.kind = "FileInfoError"
    /\ Len(result.packages) = Len(FORMAT_ENGINE_MAP[".nc"])


\* C14: an info request on an extension that is not registered returns an
\* error whose kind is not the missing-dependency kind ("ImportError") and
\* which carries no install-a-package suggestion.
C14_UnregisteredIsUnsupportedFormat ==
    (pc = "done" /\ mode = "info" /\ ext \notin DOMAIN FORMAT_ENGINE_MAP)
    => /\ result.kind = "FileInfoError"
       /\ result.error_type # "ImportError"
       /\ result.suggestion # InstallPackages


(***************************************************************************)
(* detect_file_format on its own: every registered extension (and one that *)
(* is not), every combination of installed packages                        *)
(***************************************************************************)
InitDetect ==
    /\ ext \in DOMAIN FORMAT_ENGINE_MAP \cup {".xyz"}
    /\ installed \in SUBSET ProbedBy(ext)
    /\ has_open_datatree = TRUE
    /\ file_groups = <<>>
    /\ root_data_vars = <<>>
    /\ mode = "none" /\ plot_type = "auto" /\ style = "" /\ variable_path = <<>>
    /\ pc = "idle"
    /\ file_format_info = Unbound
    /\ probed = {}
    /\ idx = 0 /\ exceptions = <<>>
    /\ groups = <<>> /\ gi = 0 /\ xds_dict = <<>>
    /\ attempts = <<>>
    /\ opened = <<>> /\ live = {}
    /\ xds_or_xdt = NoObject /\ used_engine = "none"
    /\ raised = NoError
    /\ info = NoResult
    /\ applied_style = "none"
    /\ result = NoResult
    /\ payload = NoResult /\ stdout = NoResult
    /\ call_no = 1 /\ first_call = NoResult

NextDetect == GetFileInfoStart \/ InfoDetect

SpecDetect == InitDetect /\ [][NextDetect]_vars

\* Position of a candidate in the candidate list of an extension.
CandidatePos(file_extension, e) ==
    CHOOSE i \in 1..Len(FORMAT_ENGINE_MAP[file_extension]) :
        FORMAT_ENGINE_MAP[file_extension][i] = e

\* C15: for a registered extension the returned available_engines is an
\* order-preserving sub-list of the candidate list, missing_packages is
\* exactly the packages of the candidates that are not in available_engines
\* (in candidate order), and every candidate is counted in exactly one list.
C15_AvailableAndMissingPartition ==
    (file_format_info # Unbound /\ ext \in DOMAIN FORMAT_ENGINE_MAP)
    => LET cands   == FORMAT_ENGINE_MAP[ext]
           avail   == file_format_info.available_engines
           missing == file_format_info.missing_packages
           InAvail(e) == \E i \in 1..Len(avail) : avail[i] = e
           rest    == SelectSeq(cands, LAMBDA e : ~InAvail(e))
       IN  /\ \A i \in 1..Len(avail) : \E j \in 1..Len(cands) : cands[j] = avail[i]
           /\ \A i, j \in 1..Len(avail) :
                 i < j => CandidatePos(ext, avail[i]) < CandidatePos(ext, avail[j])
           /\ missing = [i \in 1..Len(rest) |-> ENGINE_PACKAGES[rest[i]]]
           /\ Len(avail) + Len(missing) = Len(cands)

C15_Witness ==
    /\ file_format_info # Unbound
    /\ ext = ".nc"
    /\ Len(file_format_info.available_engines) = 2
    /\ file_format_info.missing_packages = <<"h5netcdf">>


\* C16: detect_file_format never fails: once an info request is past its
\* detection step the format record exists, no probing error has reached the
\* caller, and an unregistered extension is labelled "Unknown" with empty
\* engine and package lists.
C16_DetectNeverFails ==
    (mode = "info" /\ pc \notin {"idle", "info_detect"})
    => /\ file_format_info # Unbound
       /\ ~(result.kind = "raised" /\ result.error.op = "find_spec")
       /\ ext \notin DOMAIN FORMAT_ENGINE_MAP
            => /\ file_format_info.display_name = "Unknown"
               /\ file_format_info.available_engines = <<>>
               /\ file_format_info.missing_packages = <<>>


\* C17: a flat, per-group open of a file that declares root plus the
\* subgroups group1 and group2 returns a map of exactly three entries keyed
\* "/", "/group1" and "/group2".
C17_FlatOpenKeysAbsolute ==
    (OpenReturned /\ xds_or_xdt.shape = "dict" /\ file_groups = SubgroupNames(2))
    => /\ Len(xds_or_xdt.items) = 3
       /\ {xds_or_xdt.items[i].key : i \in 1..Len(xds_or_xdt.items)}
              = {"/", "/group1", "/group2"}


\* A plot request returned a figure.
Plotted == pc = "done" /\ mode = "plot" /\ result.kind = "CreatePlotResult"

\* C18: the strategy of a plotted variable follows the rank table: rank 2
\* gives "2d_classic"; rank 3 gives "2d_classic_isel" when the first extent
\* is 1 and "3d_col" otherwise; rank 4 gives "4d_col_row"; rank 0, rank 1 and
\* rank 5 or more give "default".
C18_RankDecisionTable ==
    Plotted =>
        LET shape == result.var.shape
            rank  == Len(shape)
        IN  result.strategy =
                CASE rank = 2 -> "2d_classic"
                  [] rank = 3 /\ shape[1] = 1 -> "2d_classic_isel"
                  [] rank = 3 /\ shape[1] # 1 -> "3d_col"
                  [] rank = 4 -> "4d_col_row"
                  [] OTHER -> "default"

\* Shape [1, 2, 2] was plotted as a single image after an index-select.
C18_Witness ==
    /\ Plotted
    /\ result.var.shape = <<1, 2, 2>>
    /\ result.strategy = "2d_classic_isel"
    /\ result.plot_call.isel = result.var.dims[1]


\* Every array of the modelled files, under any of the names a lookup can
\* return.
AllDataArrays == UNION {RenderVars(name) : name \in {"temperature", "time"}}

\* C19: the strategy depends on the shape only: every array with the shape
\* of the plotted variable gets the strategy the plotted variable got,
\* whatever its name, its dimension names and its attributes.
C19_StrategyOfShapeOnly ==
    Plotted =>
        \A other \in AllDataArrays :
            other.shape = result.var.shape
                => detect_plotting_strategy(other) = result.strategy

\* A rank-3 variable without any spatial-looking dimension name was faceted,
\* exactly as one with the same shape and dimensions (band, y, x) is.
C19_Witness ==
    /\ Plotted
    /\ result.var.shape = <<3, 2, 2>>
    /\ result.var.dims = <<"time", "level", "band">>
    /\ result.var.attrs = "{units: K}"
    /\ result.strategy = "3d_col"
    /\ \E other \in AllDataArrays :
          /\ other.shape = result.var.shape
          /\ other.dims = <<"band", "y", "x">>
          /\ other.name # result.var.name
          /\ other.attrs # result.var.attrs


\* C20: a "3d_col" render facets the columns along the first dimension with
\* a column wrap equal to the first extent, capped at MaxColWrap; a
\* "4d_col_row" render facets the rows along the first dimension and the
\* columns along the second.
C20_FacetAxes ==
    Plotted =>
        LET var  == result.var
            call == result.plot_call
        IN  /\ result.strategy = "3d_col"
                => /\ call.col = var.dims[1]
                   /\ call.row = NoFacet
                   /\ call.col_wrap = IF var.shape[1] > MaxColWrap
                                      THEN MaxColWrap ELSE var.shape[1]
                   /\ call.col_wrap <= MaxColWrap
            /\ result.strategy = "4d_col_row"
                => /\ call.row = var.dims[1]
                   /\ call.col = var.dims[2]

\* Shape [3, 2, 2, 2] with dims (level, band, y, x): rows over level (axis
\* 0), columns over band (axis 1).
C20_Witness ==
    /\ Plotted
    /\ result.var.shape = <<3, 2, 2, 2>>
    /\ result.var.dims = <<"level", "band", "y", "x">>
    /\ result.strategy = "4d_col_row"
    /\ result.plot_call.row = "level"
    /\ result.plot_call.col = "band"


\* An info request returned a FileInfoResult.
InfoSucceeded == pc = "done" /\ mode = "info" /\ result.kind = "FileInfoResult"

\* C21: in a successful info result the six per-group maps have the same key
\* set, the keys of the groups that were walked: a group without data
\* variables or coordinates has an entry in every map.
C21_SixMapsSameKeys ==
    InfoSucceeded =>
        LET keys == {info.items[i].key : i \in 1..Len(info.items)}
        IN  /\ DOMAIN result.dimensions_flattened = keys
            /\ DOMAIN result.attributes_flattened = keys
            /\ DOMAIN result.xarray_text_repr_flattened = keys
            /\ DOMAIN result.xarray_html_repr_flattened = keys
            /\ DOMAIN result.variables_flattened = keys
            /\ DOMAIN result.coordinates_flattened = keys


\* An info request whose open succeeded ended before every group was
\* extracted: the reprs or a group's extraction raised.
InfoStoppedEarly ==
    /\ pc = "done" /\ mode = "info" /\ OpenReturned
    /\ (info = NoResult \/ info.k <= Len(info.items))

\* C22: an info request whose open succeeded returns either the
\* check-file-integrity error, which it does whenever the reprs or a group's
\* extraction raised, or a result holding every group that was walked; never
\* a result with only the groups extracted before an error.
C22_AllOrNothing ==
    (pc = "done" /\ mode = "info" /\ OpenReturned)
    => IF InfoStoppedEarly
       THEN /\ result.kind = "FileInfoError"
            /\ result.suggestion = CheckIntegrity
       ELSE /\ result.kind = "FileInfoResult"
            /\ DOMAIN result.attributes_flattened
                   = {info.items[i].key : i \in 1..Len(info.items)}

\* The second group's extraction raised after the first was extracted.
C22_Witness ==
    /\ InfoStoppedEarly
    /\ info # NoResult
    /\ info.k = 2
    /\ DOMAIN info.attributes_flattened = {"/"}
    /\ result.kind = "FileInfoError"
    /\ result.error_type = "OSError"


\* A descriptor lists as many dimension names as extents, and every name is
\* a key of the dimension-size mapping.
DescriptorConsistent(descriptor, dimensions) ==
    /\ Len(descriptor.shape) = Len(descriptor.dimensions)
    /\ \A i \in 1..Len(descriptor.dimensions) :
          descriptor.dimensions[i] \in DOMAIN dimensions

\* C23: every variable descriptor and every coordinate descriptor of a
\* returned FileInfoResult has a shape list and a dimension-name list of the
\* same length, and each of its dimension names is a key of its group's
\* dimension-size mapping.
C23_DescriptorsConsistent ==
    InfoSucceeded =>
        /\ \A g \in DOMAIN result.variables_flattened :
              \A i \in 1..Len(result.variables_flattened[g]) :
                  DescriptorConsistent(result.variables_flattened[g][i],
                                       result.dimensions_flattened[g])
        /\ \A g \in DOMAIN result.coordinates_flattened :
              \A i \in 1..Len(result.coordinates_flattened[g]) :
                  DescriptorConsistent(result.coordinates_flattened[g][i],
                                       result.dimensions_flattened[g])

\* A result with a rank-3 variable of unit first extent in one group and a
\* scalar variable in another.
C23_Witness ==
    /\ InfoSucceeded
    /\ {"/", "/group1"} \subseteq DOMAIN result.variables_flattened
    /\ result.variables_flattened["/"][1].shape = <<1, 2, 2>>
    /\ result.variables_flattened["/"][1].dimensions = <<"band", "y", "x">>
    /\ result.variables_flattened["/group1"][1].shape = <<>>
    /\ result.coordinates_flattened["/"][1].dimensions = <<"time">>
    /\ DOMAIN result.dimensions_flattened["/"] = {"time", "band", "y", "x"}


(***************************************************************************)
(* JSON serialization: main prints to_json_best_effort({"result" or        *)
(* "error": asdict(result)})                                               *)
(***************************************************************************)
MaxDepth == 2

\* Python objects a payload can hold.  "float" is float and its subclass
\* np.float64; np.float32 and np.int64 are np.floating / np.integer that are
\* no float and no int.
PyStr(v)       == [t |-> "str", v |-> v]
PyInt(v)       == [t |-> "int", v |-> v]
PyFloat(v)     == [t |-> "float", v |-> v]
NpFloat32(v)   == [t |-> "np.float32", v |-> v]
NpInt64(v)     == [t |-> "np.int64", v |-> v]
PyList(items)  == [t |-> "list", items |-> items]
PyTuple(items) == [t |-> "tuple", items |-> items]
PyDict(items)  == [t |-> "dict", items |-> items]     \* items: <<[k, v], ...>>
NdArray(items) == [t |-> "np.ndarray", items |-> items]
Dataclass(fields) == [t |-> "dataclass", fields |-> fields]
PyObject       == [t |-> "object"]
TypeErrorRaised == [t |-> "raise TypeError"]

Leaves ==
    { PyStr("K"), PyInt("1"), PyFloat("1.5"), PyFloat("nan"),
      NpFloat32("1.5"), NpFloat32("nan"), NpInt64("1"),
      NdArray(<<PyFloat("1.5")>>), NdArray(<<PyFloat("nan")>>),
      Dataclass(PyDict(<<[k |-> "a", v |-> PyInt("1")]>>)), PyObject }

\* The objects of nesting depth at most d, containers holding one element.
RECURSIVE Values(_)
Values(d) ==
    IF d = 0 THEN Leaves
    ELSE LET inner == Values(d - 1)
         IN  Leaves
             \cup {PyList(<<x>>) : x \in inner}
             \cup {PyTuple(<<x>>) : x \in inner}
             \cup {PyDict(<<[k |-> "a", v |-> x]>>) : x \in inner}

\* str(obj) / repr(obj)
RECURSIVE StrOf(_)
StrOf(obj) ==
    CASE obj.t \in {"str", "int", "float", "np.float32", "np.int64"} -> obj.v
      [] obj.t = "np.ndarray" ->
            "[" \o Join([i \in 1..Len(obj.items) |-> StrOf(obj.items[i])], " ") \o "]"
      [] obj.t = "dataclass" -> "Dataclass(...)"
      [] OTHER -> "<object>"

RECURSIVE sanitize_nan(_)
sanitize_nan(obj) ==
    CASE obj.t = "dict" ->
            PyDict([i \in 1..Len(obj.items) |->
                       [k |-> obj.items[i].k, v |-> sanitize_nan(obj.items[i].v)]])
      [] obj.t = "list" ->
            PyList([i \in 1..Len(obj.items) |-> sanitize_nan(obj.items[i])])
      [] obj.t = "float" /\ obj.v = "nan" -> PyStr(StrOf(obj))
      [] OTHER -> obj

\* ComplexEncoder.default
ComplexEncoder_default(obj) ==
    CASE obj.t = "dataclass"  -> obj.fields
      [] obj.t = "np.ndarray" -> PyList(obj.items)
      [] obj.t = "np.float32" -> PyFloat(obj.v)
      [] obj.t = "np.int64"   -> PyInt(obj.v)
      [] OTHER                -> TypeErrorRaised

\* json.dumps(obj, cls=encoder, allow_nan=False, default=str)
default_kwarg == "str"

\* self.default of the encoder instance json.dumps builds:
\* JSONEncoder.__init__ stores a default that is not None as the instance
\* attribute "default", which hides the method of the class.
EncoderDefault(obj) ==
    IF default_kwarg = "None" THEN ComplexEncoder_default(obj)
    ELSE PyStr(StrOf(obj))

JString(v) == [j |-> "string", v |-> v]
JNumber(v) == [j |-> "number", v |-> v]
JArray(items) == [j |-> "array", items |-> items]
JObject(items) == [j |-> "object", items |-> items]
JRaises(type) == [j |-> "raises", type |-> type]

\* The first error among encoded elements, if any.
FirstRaised(encoded) ==
    LET bad == {i \in 1..Len(encoded) : encoded[i].j = "raises"}
    IN  IF bad = {} THEN JRaises("none")
        ELSE encoded[CHOOSE i \in bad : \A k \in bad : i <= k]

\* JSONEncoder.iterencode with allow_nan=False
RECURSIVE JSONEncode(_)
JSONEncode(obj) ==
    CASE obj.t = "str" -> JString(obj.v)
      [] obj.t = "int" -> JNumber(obj.v)
      [] obj.t = "float" ->
            IF obj.v = "nan" THEN JRaises("ValueError") ELSE JNumber(obj.v)
      [] obj.t \in {"list", "tuple"} ->
            LET encoded == [i \in 1..Len(obj.items) |-> JSONEncode(obj.items[i])]
            IN  IF FirstRaised(encoded).type # "none" THEN FirstRaised(encoded)
                ELSE JArray(encoded)
      [] obj.t = "dict" ->
            LET encoded == [i \in 1..Len(obj.items) |-> JSONEncode(obj.items[i].v)]
            IN  IF FirstRaised(encoded).type # "none" THEN FirstRaised(encoded)
                ELSE JObject([i \in 1..Len(obj.items) |->
                                 [k |-> obj.items[i].k, v |-> encoded[i]]])
      [] obj.t = "raise TypeError" -> JRaises("TypeError")
      [] OTHER -> JSONEncode(EncoderDefault(obj))

\* ComplexEncoder.encode
ComplexEncoder_encode(obj) == JSONEncode(sanitize_nan(obj))

to_json_best_effort(obj) == ComplexEncoder_encode(obj)

\* print(to_json_best_effort({"result" if ok else "error": asdict(result)}))
MainPrint ==
    /\ pc = "main_print"
    /\ stdout' = to_json_best_effort(payload)
    /\ pc' = "exit"
    /\ UNCHANGED <<calls, payload, env, request, file_format_info, probed, resolver,
                   live, info, applied_style, result>>

InitJson ==
    /\ ext = ".nc" /\ installed = {} /\ has_open_datatree = TRUE
    /\ file_groups = <<>> /\ root_data_vars = <<>>
    /\ mode = "info" /\ plot_type = "auto" /\ style = "" /\ variable_path = <<>>
    /\ pc = "main_print"
    /\ file_format_info = Unbound
    /\ probed = {}
    /\ idx = 0 /\ exceptions = <<>>
    /\ groups = <<>> /\ gi = 0 /\ xds_dict = <<>>
    /\ attempts = <<>>
    /\ opened = <<>> /\ live = {}
    /\ xds_or_xdt = NoObject /\ used_engine = "none"
    /\ raised = NoError
    /\ info = NoResult
    /\ applied_style = "none"
    /\ result = NoResult
    /\ payload \in {PyDict(<<[k |-> "result", v |-> x]>>) : x \in Values(MaxDepth)}
    /\ stdout = NoResult
    /\ call_no = 1 /\ first_call = NoResult

NextJson == MainPrint

SpecJson == InitJson /\ [][NextJson]_vars

\* C24: encoding a payload never fails because of a NaN: every NaN float
\* leaf, at any depth and in any container (dict, list, tuple), has been
\* replaced by a string before the encoder meets it.
C24_NaNNeverFailsEncoding ==
    pc = "exit" => ~(stdout.j = "raises" /\ stdout.type = "ValueError")


\* The object under the payload's "result" key and what was printed for it.
PrintedValue == stdout.items[1].v
PayloadValue == payload.items[1].v

\* C28: the conversions of ComplexEncoder.default come before the string
\* fallback: a numpy array is printed as a JSON array, a numpy integer or
\* floating scalar as a JSON number, a dataclass as a JSON object.
C28_ConversionsBeforeStr ==
    (pc = "exit" /\ stdout.j = "object")
    => /\ PayloadValue.t = "np.ndarray" => PrintedValue.j = "array"
       /\ PayloadValue.t = "np.int64" => PrintedValue.j = "number"
       /\ (PayloadValue.t = "np.float32" /\ PayloadValue.v # "nan")
              => PrintedValue.j = "number"
       /\ PayloadValue.t = "dataclass" => PrintedValue.j = "object"


(***************************************************************************)
(* Two info requests on the same unmodified file in the same environment   *)
(***************************************************************************)
\* The second request is a new process: every local starts afresh, the
\* environment is the one of the first request.
InfoAgain ==
    /\ pc = "done" /\ mode = "info" /\ call_no = 1
    /\ call_no' = 2
    /\ first_call' = [attempts |-> attempts, info |-> info, result |-> result]
    /\ pc' = "info_detect"
    /\ file_format_info' = Unbound
    /\ probed' = {}
    /\ idx' = 0 /\ exceptions' = <<>>
    /\ groups' = <<>> /\ gi' = 0 /\ xds_dict' = <<>>
    /\ attempts' = <<>>
    /\ opened' = <<>> /\ live' = {}
    /\ xds_or_xdt' = NoObject /\ used_engine' = "none"
    /\ raised' = NoError
    /\ info' = NoResult
    /\ result' = NoResult
    /\ UNCHANGED <<output, env, request, applied_style>>

FindSpecRaised(res) == res.kind = "raised" /\ res.error.op = "find_spec"

IsPrefix(s, t) == Len(s) <= Len(t) /\ \A i \in 1..Len(s) : s[i] = t[i]

\* The file and the environment answer the second request as they answered
\* the first: find_spec raises or not as before, the same backend call has
\* the same outcome, the arrays read are the same, and whatever raised while
\* the opened file was read raises again at the same place.
SameAnswers ==
    call_no = 2 =>
        /\ FindSpecRaised(result) => FindSpecRaised(first_call.result)
        /\ file_format_info # Unbound => ~FindSpecRaised(first_call.result)
        /\ \A i \in 1..Len(attempts), j \in 1..Len(first_call.attempts) :
              (/\ attempts[i].engine = first_call.attempts[j].engine
               /\ attempts[i].op = first_call.attempts[j].op
               /\ attempts[i].group = first_call.attempts[j].group)
              => attempts[i].res = first_call.attempts[j].res
        /\ info # NoResult =>
              /\ first_call.info # NoResult
              /\ info.k <= first_call.info.k
              /\ IsPrefix(info.read, first_call.info.read)
        /\ InfoStoppedEarly =>
              /\ first_call.result.kind = "FileInfoError"
              /\ first_call.result.error_type = result.error_type
              /\ (info = NoResult) = (first_call.info = NoResult)
              /\ info # NoResult => info.k = first_call.info.k

MaxSubgroupsTwice == 1

\* A NetCDF file with up to MaxSubgroupsTwice subgroups, in every environment.
InitTwice ==
    /\ ext = ".nc"
    /\ installed \in SUBSET ProbedBy(ext)
    /\ has_open_datatree \in BOOLEAN
    /\ file_groups \in {SubgroupNames(n) : n \in 0..MaxSubgroupsTwice}
    /\ root_data_vars \in {<<>>, <<"temperature">>}
    /\ mode = "none" /\ plot_type = "auto" /\ style = "" /\ variable_path = <<>>
    /\ pc = "idle"
    /\ file_format_info = Unbound
    /\ probed = {}
    /\ idx = 0 /\ exceptions = <<>>
    /\ groups = <<>> /\ gi = 0 /\ xds_dict = <<>>
    /\ attempts = <<>>
    /\ opened = <<>> /\ live = {}
    /\ xds_or_xdt = NoObject /\ used_engine = "none"
    /\ raised = NoError
    /\ info = NoResult
    /\ applied_style = "none"
    /\ result = NoResult
    /\ payload = NoResult /\ stdout = NoResult
    /\ call_no = 1 /\ first_call = NoResult

NextTwice ==
    \/ ResolverEntry /\ SameAnswers'
    \/ OpenDatatree /\ SameAnswers'
    \/ EnumerateGroups /\ SameAnswers'
    \/ OpenDatasetOfGroup /\ SameAnswers'
    \/ FallbackOpenDataset /\ SameAnswers'
    \/ RaiseLastError /\ SameAnswers'
    \/ GetFileInfoStart
    \/ InfoDetect /\ SameAnswers'
    \/ InfoOpenRaised /\ SameAnswers'
    \/ InfoRepr /\ SameAnswers'
    \/ ExtractGroup /\ SameAnswers'
    \/ InfoCloseAndReturn /\ SameAnswers'
    \/ InfoAgain

SpecTwice == InitTwice /\ [][NextTwice]_vars

UnknownStyleRequest ==
    /\ mode = "plot" /\ pc = "done"
    /\ style # "" /\ style \notin KnownStyles
    /\ plot_type = "auto"
    /\ file_format_info # Unbound
    /\ is_supported(file_format_info)
    /\ check_package_availability("matplotlib")

\* C26: an unrecognized style name does not end a plot request: the default
\* style is in force and the request went on to open the file.
C26_UnknownStyleNotFatal ==
    UnknownStyleRequest =>
        /\ applied_style = "default"
        /\ attempts # <<>>

C26_Witness ==
    /\ UnknownStyleRequest
    /\ style = "no_such_style"
    /\ applied_style = "default"
    /\ result.kind = "CreatePlotResult"


\* A plot request for the bare name "temperature" on an opened tree or dict
\* of datasets whose root group holds that variable.
BareNameRequest ==
    /\ pc = "done" /\ mode = "plot" /\ OpenReturned
    /\ variable_path = RelPath(<< <<"temperature">> >>)
    /\ InSeq("temperature", GroupDataVars("/"))
    /\ xds_or_xdt.shape \in {"tree", "dict"}

\* C27: a bare variable name resolves to the variable of the root group,
\* with a native tree and with a dict of per-group datasets alike: the
\* variable is found and plotted (unless the render itself raises).
C27_BareNameInRoot ==
    BareNameRequest =>
        \/ /\ result.kind = "CreatePlotResult"
           /\ result.variable_name = "temperature"
        \/ /\ result.kind = "CreatePlotError"
           /\ result.error = "TypeError"


(***************************************************************************)
(* open_datatree_with_fallback on its own, every step eventually taken     *)
(***************************************************************************)
NextResolve == GetFileInfoStart \/ InfoDetect \/ Resolver

SpecResolve == InitTwice /\ [][NextResolve]_vars /\ WF_vars(NextResolve)

\* Number of backend calls in the log that satisfy Test.
CountCalls(Test(_)) == Cardinality({i \in 1..Len(attempts) : Test(attempts[i])})

\* One loop iteration per engine: an iteration starts with open_datatree,
\* with the enumeration of the groups or with the flat open of the root.
EachEngineAtMostOnce ==
    \A e \in Engines :
        /\ CountCalls(LAMBDA c : c.engine = e /\ c.op = "open_datatree") <= 1
        /\ CountCalls(LAMBDA c : c.engine = e /\ c.op = "enumerate") <= 1
        /\ CountCalls(LAMBDA c : c.engine = e /\ c.op = "open_dataset"
                                  /\ c.group = "/") <= 1

AtMostOneFallback ==
    CountCalls(LAMBDA c : c.op = "fallback_open_dataset") <= 1

\* C29: the resolver, once entered, ends with a returned handle or a raised
\* error; it attempts each engine at most once and makes at most one
\* fallback open_dataset call after a NotImplementedError.
C29_ResolverTerminates ==
    /\ [](EachEngineAtMostOnce /\ AtMostOneFallback)
    /\ (pc = "open") ~> (pc \in {"opened", "open_raised"})

\* Two engines failed, the third raised NotImplementedError and its fallback
\* open returned.
C29_Witness ==
    /\ pc = "opened"
    /\ Len(exceptions) = 2
    /\ Len(attempts) = 4
    /\ attempts[3].res = "NotImplementedError"
    /\ attempts[4].op = "fallback_open_dataset"
    /\ attempts[4].res = "ok"

\* The result of an info request is the missing-dependency error.
MissingDependencyReported ==
    /\ pc = "done"
    /\ mode = "info"
    /\ result.kind = "FileInfoError"
    /\ result.error_type = "ImportError"
    /\ result.suggestion = InstallPackages

\* C30: get_file_info reports missing dependencies only when no engine is
\* available; after a backend call was made, no backend error is reported
\* as a missing dependency.
C30_MissingDependencyOnlyWithoutEngines ==
    MissingDependencyReported => (available_engines = <<>> /\ attempts = <<>>)

====
